---- MODULE Spec2Model ----
\* A model of WebScraper (src/scraper.py): the fetch client with its retry loop,
\* the crawl loop of scrape_website with both pagination strategies and its
\* extraction, the data cleaner, the progress thread, the robots.txt check,
\* and the main program with its export and its handling of an operator
\* interrupt.
EXTENDS Integers, Sequences, FiniteSets, TLC

\* ---------------------------------------------------------------- bounds
\* The largest number of records clean_data is called with on its own.
MaxRecords == 2
\* The largest max_retries a scraper is constructed with.
MaxRetries == 2
\* The largest limit_pages a crawl is started with (0..MaxLimit, or unset).
MaxLimit == 2
\* The number of listing pages of the site that hold items; a request for a
\* later page is answered with an error or with a page without items.
MaxPages == 2
\* The largest number of item containers on one page.
MaxItems == 2

\* limit_pages = None
NoLimit == -1

\* ---------------------------------------------------------------- URLs
\* A URL (or relative reference) is scheme://netloc/path; a path is a sequence
\* of segments, and a segment is a text followed by an optional number:
\* page = 0 is no number, page = -1 the unformatted placeholder {page}.
Seg(text, page) == [text |-> text, page |-> page]

MkUrl(scheme, netloc, rooted, path) ==
    [scheme |-> scheme, netloc |-> netloc, rooted |-> rooted, path |-> path]

\* The empty string ''.
EmptyUrl == MkUrl("", "", FALSE, <<>>)

\* The validity test without its restriction to http and https.
is_valid_url_AnyScheme(url) == url.scheme # "" /\ url.netloc # ""

\* urlparse + the test of is_valid_url.
is_valid_url(url) ==
    IF ~(url.scheme # "" /\ url.netloc # "")
    THEN FALSE
    ELSE url.scheme \in {"http", "https"}

\* urllib.parse.urljoin for references without dot segments or query.
urljoin(base, url) ==
    IF base = EmptyUrl THEN url
    ELSE IF url = EmptyUrl THEN base
    ELSE IF url.scheme # "" /\ url.scheme # base.scheme THEN url
    ELSE IF url.netloc # ""
         THEN MkUrl(base.scheme, url.netloc, TRUE, url.path)
    ELSE IF url.path = <<>> THEN base
    ELSE IF url.rooted
         THEN MkUrl(base.scheme, base.netloc, TRUE, url.path)
    ELSE MkUrl(base.scheme, base.netloc, TRUE,
               (IF base.path = <<>> THEN <<>>
                ELSE SubSeq(base.path, 1, Len(base.path) - 1)) \o url.path)

make_absolute_url(base_url, relative_url) ==
    IF relative_url = EmptyUrl THEN EmptyUrl
    ELSE IF is_valid_url(relative_url) THEN relative_url
    ELSE urljoin(base_url, relative_url)

\* str.format(page=page_num) on a URL template.
FormatPage(template, page_num) ==
    [template EXCEPT !.path =
        [i \in DOMAIN template.path |->
            IF template.path[i].page = -1
            THEN Seg(template.path[i].text, page_num)
            ELSE template.path[i]]]

\* ---------------------------------------------------------------- values
\* A Python value of a record field: None, a str (a sequence of characters),
\* a float m / 10^e (or inf, nan), an int m; u is the URL of a str that
\* make_absolute_url returned.
Val(t, s, m, e) == [t |-> t, s |-> s, m |-> m, e |-> e, u |-> EmptyUrl]
NoneVal == Val("none", <<>>, 0, 0)
StrVal(s) == Val("str", s, 0, 0)
IntVal(n) == Val("int", <<>>, n, 0)
InfVal == Val("inf", <<>>, 0, 0)
NanVal == Val("nan", <<>>, 0, 0)
UrlVal(u) == [Val("url", <<>>, 0, 0) EXCEPT !.u = u]

Digits == {"0", "1", "2", "3", "4", "5", "6", "7", "8", "9"}
Whitespace == {" ", "\t", "\n"}

DigitOf(c) ==
    CASE c = "0" -> 0 [] c = "1" -> 1 [] c = "2" -> 2 [] c = "3" -> 3
      [] c = "4" -> 4 [] c = "5" -> 5 [] c = "6" -> 6 [] c = "7" -> 7
      [] c = "8" -> 8 [] c = "9" -> 9

CharOf(d) ==
    CASE d = 0 -> "0" [] d = 1 -> "1" [] d = 2 -> "2" [] d = 3 -> "3"
      [] d = 4 -> "4" [] d = 5 -> "5" [] d = 6 -> "6" [] d = 7 -> "7"
      [] d = 8 -> "8" [] d = 9 -> "9"

\* s without the characters in drop.
RECURSIVE Without(_, _)
Without(s, drop) ==
    IF s = <<>> THEN <<>>
    ELSE (IF Head(s) \in drop THEN <<>> ELSE <<Head(s)>>) \o Without(Tail(s), drop)

\* s with only the characters in keep.
RECURSIVE Only(_, _)
Only(s, keep) ==
    IF s = <<>> THEN <<>>
    ELSE (IF Head(s) \in keep THEN <<Head(s)>> ELSE <<>>) \o Only(Tail(s), keep)

RECURSIVE LStrip(_)
LStrip(s) ==
    IF s # <<>> /\ Head(s) \in Whitespace THEN LStrip(Tail(s)) ELSE s

RECURSIVE RStrip(_)
RStrip(s) ==
    IF s # <<>> /\ s[Len(s)] \in Whitespace
    THEN RStrip(SubSeq(s, 1, Len(s) - 1)) ELSE s

\* str.strip()
Strip(s) == RStrip(LStrip(s))

\* ' '.join(s.split()): runs of whitespace become one space, the ends are stripped.
RECURSIVE Collapse(_)
Collapse(s) ==
    LET t == LStrip(s) IN
    IF t = <<>> THEN <<>>
    ELSE IF Tail(t) # <<>> /\ Head(Tail(t)) \in Whitespace
         THEN (IF LStrip(Tail(t)) = <<>> THEN <<Head(t)>>
               ELSE <<Head(t), " ">> \o Collapse(Tail(t)))
         ELSE <<Head(t)>> \o Collapse(Tail(t))

RECURSIVE Pow10(_)
Pow10(e) == IF e = 0 THEN 1 ELSE 10 * Pow10(e - 1)

\* The number written by a sequence of digits.
RECURSIVE DigitsValue(_)
DigitsValue(s) ==
    IF s = <<>> THEN 0
    ELSE 10 * DigitsValue(SubSeq(s, 1, Len(s) - 1)) + DigitOf(s[Len(s)])

\* The digits that write a natural number.
RECURSIVE NatChars(_)
NatChars(n) ==
    IF n < 10 THEN <<CharOf(n)>> ELSE NatChars(n \div 10) \o <<CharOf(n % 10)>>

\* n written with exactly w digits (leading zeros).
RECURSIVE PadChars(_, _)
PadChars(n, w) ==
    IF w = 0 THEN <<>> ELSE PadChars(n \div 10, w - 1) \o <<CharOf(n % 10)>>

\* A float m / 10^e in lowest terms of e (1234.50 and 1234.5 are one value).
RECURSIVE FloatVal(_, _)
FloatVal(m, e) ==
    IF e > 0 /\ m % 10 = 0 THEN FloatVal(m \div 10, e - 1)
    ELSE Val("float", <<>>, m, e)

\* The outcome of a conversion that raised: ValueError is caught by clean_data,
\* OverflowError is not.
ValueError == Val("ValueError", <<>>, 0, 0)
OverflowError == Val("OverflowError", <<>>, 0, 0)

\* float(s) for a string of the modelled alphabet (no exponent, no underscore):
\* surrounding whitespace is ignored, then an optional sign and a decimal
\* numeral, or inf, or nan; anything else raises ValueError.
PyFloat(s) ==
    LET t == Strip(s)
        neg == t # <<>> /\ Head(t) = "-"
        u == IF t # <<>> /\ Head(t) \in {"-", "+"} THEN Tail(t) ELSE t
        dots == {i \in DOMAIN u : u[i] = "."}
        digs == Only(u, Digits)
        e == IF dots = {} THEN 0 ELSE Len(u) - (CHOOSE i \in dots : TRUE)
    IN  IF u = <<"i", "n", "f">> THEN InfVal
        ELSE IF u = <<"n", "a", "n">> THEN NanVal
        ELSE IF /\ digs # <<>>
                /\ \A i \in DOMAIN u : u[i] \in Digits \cup {"."}
                /\ Cardinality(dots) <= 1
             THEN FloatVal((IF neg THEN -1 ELSE 1) * DigitsValue(digs), e)
        ELSE ValueError

\* int(x) for a float x: truncation toward zero; int(inf) raises OverflowError
\* and int(nan) raises ValueError.
PyInt(x) ==
    IF x.t = "inf" THEN OverflowError
    ELSE IF x.t = "nan" THEN ValueError
    ELSE IF x.t = "ValueError" THEN ValueError
    ELSE IF x.m >= 0 THEN IntVal(x.m \div Pow10(x.e))
    ELSE IntVal(-((-x.m) \div Pow10(x.e)))

\* str(value)
PyStr(v) ==
    CASE v.t = "none" -> <<"N", "o", "n", "e">>
      [] v.t = "str" -> v.s
      [] v.t = "int" -> (IF v.m < 0 THEN <<"-">> \o NatChars(-v.m) ELSE NatChars(v.m))
      [] v.t = "inf" -> <<"i", "n", "f">>
      [] v.t = "nan" -> <<"n", "a", "n">>
      [] v.t = "float" ->
            LET a == IF v.m < 0 THEN -v.m ELSE v.m IN
            (IF v.m < 0 THEN <<"-">> ELSE <<>>)
            \o NatChars(a \div Pow10(v.e)) \o <<".">>
            \o (IF v.e = 0 THEN <<"0">> ELSE PadChars(a % Pow10(v.e), v.e))

\* ---------------------------------------------------------------- clean_data
\* A rule of cleaning_rules: the four flags read with rule.get(flag, False).
Rule(ws, cur, fl, int) ==
    [remove_whitespace |-> ws, remove_currency |-> cur,
     convert_to_float |-> fl, convert_to_int |-> int]

\* Lines 165-182: the four steps in their fixed order, on one field's value.
CleanValue(value, rule) ==
    LET v1 == IF rule.remove_whitespace THEN StrVal(Collapse(PyStr(value))) ELSE value
        v2 == IF rule.remove_currency
              THEN StrVal(Only(PyStr(v1), Digits \cup {".", ","})) ELSE v1
        f3 == PyFloat(Without(PyStr(v2), {","}))
        v3 == IF rule.convert_to_float
              THEN (IF f3 = ValueError THEN NoneVal ELSE f3) ELSE v2
        i4 == PyInt(PyFloat(Without(PyStr(v3), {","})))
    IN  IF rule.convert_to_int
        THEN (IF i4 = ValueError THEN NoneVal ELSE i4) ELSE v3

\* cleaning_rules is None or a dict from field names to rules.
NoRules == [isNone |-> TRUE, d |-> <<>>]
Rules(d) == [isNone |-> FALSE, d |-> d]

\* A record (a dict, which keeps the order its keys were inserted in) is a
\* sequence of fields with distinct keys.
Field(key, value) == [key |-> key, value |-> value]

\* The whitespace of a field without a rule is collapsed.
CleanItem_TrimsAll(item, cleaning_rules) ==
    [i \in DOMAIN item |->
        Field(item[i].key,
              IF item[i].value = NoneVal THEN NoneVal
              ELSE IF item[i].key \in DOMAIN cleaning_rules.d
              THEN CleanValue(item[i].value, cleaning_rules.d[item[i].key])
              ELSE CleanValue(item[i].value, Rule(TRUE, FALSE, FALSE, FALSE)))]

\* Lines 161-184: one record.
CleanItem(item, cleaning_rules) ==
    [i \in DOMAIN item |->
        Field(item[i].key,
              IF item[i].key \in DOMAIN cleaning_rules.d /\ item[i].value # NoneVal
              THEN CleanValue(item[i].value, cleaning_rules.d[item[i].key])
              ELSE item[i].value)]

\* clean_data, when it returns.
clean_data(data, cleaning_rules) ==
    IF cleaning_rules.isNone \/ DOMAIN cleaning_rules.d = {}
    THEN data
    ELSE [i \in DOMAIN data |-> CleanItem(data[i], cleaning_rules)]

\* clean_data raises (an OverflowError leaves the conversion uncaught).
CleanRaises(data, cleaning_rules) ==
    /\ ~(cleaning_rules.isNone \/ DOMAIN cleaning_rules.d = {})
    /\ \E i \in DOMAIN data : \E j \in DOMAIN data[i] :
          CleanItem(data[i], cleaning_rules)[j].value = OverflowError

\* ---------------------------------------------------------------- the site
\* The value element.get(attribute) finds: nothing, a str, the str of an href
\* or src (a URL reference), or the list bs4 gives for a multi-valued
\* attribute such as class.
Attr(kind, s, u) == [kind |-> kind, s |-> s, u |-> u]
AbsentAttr == Attr("absent", <<>>, EmptyUrl)
StrAttr(s) == Attr("str", s, EmptyUrl)
UrlAttr(u) == Attr("url", <<>>, u)
ListAttr == Attr("list", <<>>, EmptyUrl)
AttrNames == {"href", "title", "class"}
NoAttrs == [a \in AttrNames |-> AbsentAttr]

\* An element looked up with select_one: found or not, with its text and its
\* attributes.
ElemWith(found, text, attrs) == [found |-> found, text |-> text, attrs |-> attrs]
Elem(found, text) == ElemWith(found, text, NoAttrs)
NoElem == Elem(FALSE, <<>>)

\* The texts the site puts in item k of listing page n: a title that names the
\* page and the item, and a price that is a currency amount, or "N/A", or is
\* missing from the container.
SiteTitle(n, k) == <<" ", "B", CharOf(n), "-", CharOf(k), " ">>
SitePrice(n, k) ==
    CASE (n + k) % 3 = 0 -> Elem(TRUE, <<"$", "1", ",", "2", "0", CharOf(k), ".", "5", "0">>)
      [] (n + k) % 3 = 1 -> Elem(TRUE, <<"N", "/", "A">>)
      [] (n + k) % 3 = 2 -> NoElem

\* The attributes of the title link of item k of page n: an href to the book's
\* page on some items, a title attribute on the first item of a page, classes
\* on every second item.
SiteLinkAttrs(n, k) ==
    [a \in AttrNames |->
        CASE a = "href" ->
                IF (n + k) % 2 = 0
                THEN UrlAttr(MkUrl("", "", FALSE, <<Seg("book-", k)>>))
                ELSE AbsentAttr
          [] a = "title" ->
                IF k = 1 THEN StrAttr(<<" ", "T", CharOf(n), " ">>) ELSE AbsentAttr
          [] a = "class" ->
                IF k % 2 = 0 THEN ListAttr ELSE AbsentAttr]

\* An item container: what select_one finds in it for the CSS selectors the
\* site's markup answers to.
SiteItem(n, k) ==
    [css \in {"h3 a", "p.price_color"} |->
        IF css = "h3 a"
        THEN ElemWith(TRUE, SiteTitle(n, k), SiteLinkAttrs(n, k))
        ELSE SitePrice(n, k)]

\* What soup.select_one(next_selector) finds in page n: nothing, an element
\* without href, or an element whose href is the relative reference
\* page-<n+1>. Without a next_selector nothing is looked up.
NextElem(found, href) == [found |-> found, href |-> href]
NextLinks(n, next_selector) ==
    IF next_selector = "" THEN { NextElem(FALSE, EmptyUrl) }
    ELSE { NextElem(FALSE, EmptyUrl),
           NextElem(TRUE, EmptyUrl),
           NextElem(TRUE, MkUrl("", "", FALSE, <<Seg("page-", n + 1)>>)) }

\* A parsed page: its item containers and what the next selector finds in it.
Soup(n, nitems, next) ==
    [items |-> [k \in 1..nitems |-> SiteItem(n, k)], next |-> next]
NoSoup == [items |-> <<>>, next |-> NextElem(FALSE, EmptyUrl)]

\* The pages the site may answer a request for page n with.
SitePages(n, next_selector) ==
    { Soup(n, nitems, next) :
        nitems \in 0..(IF n <= MaxPages THEN MaxItems ELSE 0),
        next \in NextLinks(n, next_selector) }

\* ---------------------------------------------------------------- configuration
\* The start URLs a crawl is called with: one valid, and three invalid ones
\* (empty, no scheme and host, scheme ftp).
BaseUrl == MkUrl("http", "books.example", TRUE, <<Seg("catalogue", 0), Seg("index", 0)>>)
Urls ==
    { BaseUrl, EmptyUrl,
      MkUrl("", "", FALSE, <<Seg("catalogue", 0)>>),
      MkUrl("ftp", "books.example", TRUE, <<Seg("catalogue", 0)>>) }

\* A dict of query parameters: a key with value 0 is absent.
Dict(q, page) == [q |-> q, page |-> page]
\* The params argument of get_page_content: None or a dict.
Params(isNone, d) == [isNone |-> isNone, d |-> d]
NoParams == Params(TRUE, Dict(0, 0))

\* The pagination argument: None, or a dict with the keys next_selector,
\* url_pattern and params ("" and hasParams = FALSE are absent keys).
Pagination(isNone, next_selector, url_pattern, hasParams, params) ==
    [isNone |-> isNone, next_selector |-> next_selector, url_pattern |-> url_pattern,
     hasParams |-> hasParams, params |-> params]
PageTemplate == MkUrl("", "", FALSE, <<Seg("page-", -1)>>)
\* An absolute template whose scheme is_valid_url does not accept.
FtpTemplate == MkUrl("ftp", "books.example", TRUE, <<Seg("page-", -1)>>)
Paginations ==
    { Pagination(TRUE, "", EmptyUrl, FALSE, Dict(0, 0)),
      Pagination(FALSE, "li.next a", EmptyUrl, FALSE, Dict(0, 0)),
      Pagination(FALSE, "", PageTemplate, FALSE, Dict(0, 0)),
      Pagination(FALSE, "li.next a", PageTemplate, FALSE, Dict(0, 0)),
      Pagination(FALSE, "", FtpTemplate, FALSE, Dict(0, 0)),
      Pagination(FALSE, "", EmptyUrl, TRUE, Dict(1, 0)) }

\* The cleaning rules of the main program's default configuration.
MainRules ==
    Rules([k \in {"price", "title"} |->
            IF k = "price" THEN Rule(FALSE, TRUE, TRUE, FALSE)
            ELSE Rule(TRUE, FALSE, FALSE, FALSE)])
RuleSets == {NoRules, MainRules}

\* An entry of the selector map besides item_selector: a simple selector (a
\* str), or a dict with the keys selector and attribute ("" is no attribute).
Selector(key, isDict, selector, attribute) ==
    [key |-> key, isDict |-> isDict, selector |-> selector, attribute |-> attribute]

\* The selector map of a crawl for titles and prices, in the order of its keys.
MainSelectors ==
    << Selector("title", FALSE, "h3 a", ""),
       Selector("price", FALSE, "p.price_color", "") >>

\* The answer to session.get(robots_url): an exception, or a response with its
\* status code and text.
Response(raised, status_code, text) ==
    [raised |-> raised, status_code |-> status_code, text |-> text]
\* No request for robots.txt has been made.
NoResponse == Response(FALSE, 0, <<>>)

\* The robots.txt files: one that disallows everything to every agent, one
\* that disallows a directory, one that disallows nothing, one that disallows
\* everything to one agent, and an empty one.
RobotsTexts ==
    { <<"U", "s", "e", "r", "-", "a", "g", "e", "n", "t", ":", " ", "*", "\n", "D", "i", "s", "a", "l", "l", "o", "w", ":", " ", "/", "\n">>,
      <<"U", "s", "e", "r", "-", "a", "g", "e", "n", "t", ":", " ", "*", "\n", "D", "i", "s", "a", "l", "l", "o", "w", ":", " ", "/", "t", "m", "p", "\n">>,
      <<"U", "s", "e", "r", "-", "a", "g", "e", "n", "t", ":", " ", "*", "\n", "D", "i", "s", "a", "l", "l", "o", "w", ":", "\n">>,
      <<"U", "s", "e", "r", "-", "a", "g", "e", "n", "t", ":", " ", "x", "\n", "D", "i", "s", "a", "l", "l", "o", "w", ":", " ", "/", "\n">>,
      <<>> }
RobotsResponses ==
    { Response(TRUE, 0, <<>>) }
    \cup { Response(FALSE, 404, t) : t \in {<<>>} }
    \cup { Response(FALSE, 200, t) : t \in RobotsTexts }

\* pattern in text
Contains(text, pattern) ==
    \E i \in 1..(Len(text) - Len(pattern) + 1) :
        SubSeq(text, i, i + Len(pattern) - 1) = pattern

\* Line 361: the test on the text of robots.txt.
Disallowed(text) ==
    /\ Contains(text, <<"U", "s", "e", "r", "-", "a", "g", "e", "n", "t", ":", " ", "*">>)
    /\ Contains(text, <<"D", "i", "s", "a", "l", "l", "o", "w", ":", " ", "/">>)

\* Lines 353-365: check_robots_txt. The request raises for a URL that requests
\* has no adapter or no host for, and the bare except turns every exception
\* into True.
check_robots_txt(u, response) ==
    IF u.netloc = "" \/ u.scheme \notin {"http", "https"} \/ response.raised
    THEN TRUE
    ELSE IF response.status_code = 200
         THEN ~Disallowed(response.text)
         ELSE TRUE

\* ---------------------------------------------------------------- state
VARIABLES
    url, pagination, limit_pages, cleaning_rules, max_retries,
    selectors,
    pc, page_num, has_next_page, data, attempt,
    scraping, current_page, total_items,
    log, tries, returned, result,
    given, cleans, delays,
    reporter, shown,
    robots, exported

\* robots is the answer to the request for robots.txt, exported the files
\* export_data has written.
\* reporter is the position of the thread running display_progress ("none"
\* before a crawl has started one), shown the counters of the line it wrote
\* last.
\* given is the pagination argument as the caller passed it, cleans the number
\* of calls of clean_data made by the crawl, delays the number of throttling
\* delays (time.sleep(self.get_random_delay() ...)) taken since the latest
\* HTTP attempt.
vars == <<url, pagination, limit_pages, cleaning_rules, max_retries, selectors,
          pc, page_num, has_next_page, data, attempt,
          scraping, current_page, total_items, log, tries, returned, result,
          given, cleans, delays, reporter, shown, robots, exported>>

\* The state of the crawl, and the state of the progress thread.
crawl == <<url, pagination, limit_pages, cleaning_rules, max_retries, selectors,
           pc, page_num, has_next_page, data, attempt,
           scraping, current_page, total_items, log, tries, returned, result,
           given, cleans, delays>>
progress == <<reporter, shown>>
main == <<robots, exported>>

config == <<url, limit_pages, cleaning_rules, max_retries, selectors, given>>

\* One call of get_page_content by the crawl loop: the page it is for, the URL
\* and params, and the page obtained. tries counts the HTTP attempts (line 121)
\* of the latest call.
Call(page, full_url, params) ==
    [page |-> page, url |-> full_url, params |-> params, ok |-> FALSE, soup |-> NoSoup]

Init ==
    /\ url \in Urls
    /\ pagination \in Paginations
    /\ limit_pages \in {NoLimit} \cup (0..MaxLimit)
    /\ cleaning_rules \in RuleSets
    /\ max_retries \in 1..MaxRetries
    /\ selectors = MainSelectors
    /\ pc = "idle"
    /\ page_num = 0
    /\ has_next_page = FALSE
    /\ data = <<>>
    /\ attempt = 0
    /\ scraping = FALSE
    /\ current_page = 0
    /\ total_items = 0
    /\ log = <<>>
    /\ tries = 0
    /\ returned = FALSE
    /\ result = <<>>
    /\ given = pagination
    /\ cleans = 0
    /\ delays = 0
    /\ reporter = "none"
    /\ shown = <<>>
    /\ robots = NoResponse
    /\ exported = {}

\* item.select_one(selector): the first element the selector matches, or None.
SelectOne(item, selector) ==
    IF selector \in DOMAIN item THEN item[selector] ELSE NoElem

\* The outcome of an extraction that raised: .strip() of a list.
AttributeError == Val("AttributeError", <<>>, 0, 0)

\* Lines 260-276: the value of one field of one item container. An href or src
\* holds a URL reference, which make_absolute_url resolves unless it is ''.
ExtractValue(item, sel) ==
    LET element == SelectOne(item, sel.selector)
        a == IF sel.attribute \in DOMAIN element.attrs
             THEN element.attrs[sel.attribute] ELSE AbsentAttr
    IN  IF sel.isDict
        THEN IF element.found
             THEN IF sel.attribute # ""
                  THEN CASE a.kind = "absent" -> StrVal(<<>>)
                         [] a.kind = "list" -> AttributeError
                         [] a.kind = "str" -> StrVal(Strip(a.s))
                         [] a.kind = "url" ->
                               IF sel.attribute \in {"href", "src"} /\ a.u # EmptyUrl
                               THEN UrlVal(make_absolute_url(url, a.u))
                               ELSE IF a.u = EmptyUrl THEN StrVal(<<>>) ELSE UrlVal(a.u)
                  ELSE StrVal(Strip(element.text))
             ELSE NoneVal
        ELSE IF element.found THEN StrVal(Strip(element.text)) ELSE NoneVal

\* Lines 253-278: the record of one item container, its keys in the order of
\* the selector map.
ExtractItem(item) ==
    [i \in DOMAIN selectors |->
        Field(selectors[i].key, ExtractValue(item, selectors[i]))]

\* The first container whose extraction raises (Len(items) + 1: none does).
FirstRaising(items) ==
    LET bad == {k \in DOMAIN items :
                  \E i \in DOMAIN selectors :
                      ExtractValue(items[k], selectors[i]) = AttributeError}
    IN  IF bad = {} THEN Len(items) + 1
        ELSE CHOOSE k \in bad : \A j \in bad : k <= j

\* Lines 253-281: the records of a page's containers, in page order, up to
\* the container whose extraction raises.
ExtractAll(items) ==
    [k \in 1..(FirstRaising(items) - 1) |-> ExtractItem(items[k])]

\* The loop test without its page limit.
LoopTest_NoLimit == has_next_page

\* The loop test that lets one page more than the limit through.
LoopTest_OneMore ==
    has_next_page /\ (limit_pages = NoLimit \/ page_num <= limit_pages + 1)

\* The loop test with the limit compared strictly.
LoopTest_Strict == has_next_page /\ (limit_pages = NoLimit \/ page_num < limit_pages)

\* Line 224: the test of the while loop.
LoopTest == has_next_page /\ (limit_pages = NoLimit \/ page_num <= limit_pages)

\* The page URL formatted with the number of the page before.
PageUrl_OffByOne ==
    IF ~pagination.isNone /\ page_num > 1
    THEN FormatPage(pagination.url_pattern, page_num - 1)
    ELSE url

\* Lines 229-238: the page URL ('' when there is no pattern).
PageUrl ==
    IF ~pagination.isNone /\ page_num > 1
    THEN FormatPage(pagination.url_pattern, page_num)
    ELSE url

\* Lines 231-237: query parameters are used when pagination gives no page URL.
UsesParams == ~pagination.isNone /\ page_num > 1 /\ PageUrl = EmptyUrl

\* Line 240
FullUrl == IF PageUrl # EmptyUrl THEN urljoin(url, PageUrl) ELSE url

\* The decision taken from the item count alone, whatever the next selector finds.
NextPage_IgnoresButton(soup) ==
    IF ~pagination.isNone
    THEN Len(soup.items) > 0 /\ (limit_pages = NoLimit \/ page_num < limit_pages)
    ELSE FALSE

\* Lines 284-293: whether another page follows the page just extracted.
NextPage(soup) ==
    IF ~pagination.isNone
    THEN IF pagination.next_selector # ""
         THEN soup.next.found /\ (limit_pages = NoLimit \/ page_num < limit_pages)
         ELSE Len(soup.items) > 0 /\ (limit_pages = NoLimit \/ page_num < limit_pages)
    ELSE FALSE

\* The log once the latest call has obtained a page.
Fetched(soup) ==
    [log EXCEPT ![Len(log)] = [@ EXCEPT !.ok = TRUE, !.soup = soup]]

\* scrape_website, lines 210-222.
Start ==
    /\ pc = "idle"
    /\ IF ~is_valid_url(url)
       THEN /\ returned' = TRUE
            /\ result' = <<>>
            /\ pc' = "done"
            /\ UNCHANGED <<scraping, data, page_num, has_next_page, reporter>>
       ELSE /\ scraping' = TRUE
            /\ reporter' = "test"
            /\ data' = <<>>
            /\ page_num' = 1
            /\ has_next_page' = TRUE
            /\ pc' = "while"
            /\ UNCHANGED <<returned, result>>
    /\ UNCHANGED <<config, pagination, attempt, current_page, total_items, log, tries,
                   cleans, delays, shown, main>>

\* Lines 224-241 and 114-118: the loop test, the page's URL and params, and
\* the entry into get_page_content, which rejects an invalid URL at once.
LoopHead ==
    /\ pc = "while"
    /\ IF LoopTest
       THEN /\ current_page' = page_num
            /\ pagination' =
                 IF UsesParams /\ pagination.hasParams
                 THEN [pagination EXCEPT !.params.page = page_num]
                 ELSE pagination
            /\ log' = Append(log,
                 Call(page_num, FullUrl,
                      IF UsesParams
                      THEN Params(FALSE, [pagination.params EXCEPT !.page = page_num])
                      ELSE NoParams))
            /\ attempt' = 0
            /\ tries' = 0
            /\ pc' = IF is_valid_url(FullUrl) THEN "attempt" ELSE "stopping"
       ELSE /\ pc' = "stopping"
            /\ UNCHANGED <<current_page, pagination, log, attempt, tries>>
    /\ UNCHANGED <<config, page_num, has_next_page, data, scraping, total_items,
                   returned, result, cleans, delays, progress, main>>

\* The last-attempt test off by one.
LastAttempt_OneMore == attempt = max_retries

\* Line 140: the attempt that failed was the last one.
LastAttempt == attempt = max_retries - 1

\* A delay is taken when get_page_content gives up, none before a retry.
DelaysAfterFailure_Inverted == IF LastAttempt THEN 1 ELSE 0

\* Lines 140-143: the delays taken after a failed attempt: none when
\* get_page_content gives up, one (of doubled length) before a retry.
DelaysAfterFailure == IF LastAttempt THEN 0 ELSE 1

\* Lines 118-127 and 138-143: an HTTP attempt that raises RequestException.
AttemptFails ==
    /\ pc = "attempt"
    /\ tries' = tries + 1
    /\ delays' = DelaysAfterFailure
    /\ IF LastAttempt
       THEN pc' = "stopping" /\ attempt' = 0
       ELSE pc' = "attempt" /\ attempt' = attempt + 1
    /\ UNCHANGED <<config, pagination, log, page_num, has_next_page, data, scraping,
                   current_page, total_items, returned, result, cleans, progress, main>>

\* The records of the page replace data.
Accumulate_Overwrite(records) == records

\* The records of the page are put before data.
Accumulate_Prepend(records) == records \o data

\* Lines 280-281: the records of the page are appended to data.
Accumulate(records) == data \o records

\* A page without items never ends the crawl.
NoItems_Never(items) == FALSE

\* Line 249: the page has no item container.
NoItems(items) == items = <<>>

\* Lines 118-136 and 243-295: an HTTP attempt that succeeds, the extraction of
\* the page and the decision about the next page.
AttemptSucceeds ==
    /\ pc = "attempt"
    /\ \E soup \in SitePages(page_num, pagination.next_selector) :
         /\ log' = Fetched(soup)
         /\ IF NoItems(soup.items)
            THEN /\ pc' = "stopping"
                 /\ UNCHANGED <<data, total_items, has_next_page, page_num>>
            ELSE /\ data' = Accumulate(ExtractAll(soup.items))
                 /\ total_items' = Len(data')
                 /\ IF FirstRaising(soup.items) <= Len(soup.items)
                    THEN /\ pc' = "raised"
                         /\ UNCHANGED <<has_next_page, page_num>>
                    ELSE /\ has_next_page' = NextPage(soup)
                         /\ page_num' = page_num + 1
                         /\ pc' = "while"
    /\ tries' = tries + 1
    /\ attempt' = 0
    /\ delays' = 1
    /\ UNCHANGED <<config, pagination, scraping, current_page, returned, result, cleans,
                   progress, main>>

\* clean_data is called once for every page requested.
CleanCalls_PerPage ==
    IF ~(cleaning_rules.isNone \/ DOMAIN cleaning_rules.d = {}) THEN Len(log) ELSE 0

\* Lines 305-306: the calls of clean_data made when the loop has been left.
CleanCalls ==
    IF ~(cleaning_rules.isNone \/ DOMAIN cleaning_rules.d = {}) THEN 1 ELSE 0

\* Lines 297-308: the progress display is stopped, the data cleaned and returned;
\* an exception of clean_data leaves scrape_website without a result.
Finish ==
    /\ pc = "stopping"
    /\ scraping' = FALSE
    /\ cleans' = cleans + CleanCalls
    /\ IF CleanRaises(data, cleaning_rules)
       THEN pc' = "raised" /\ UNCHANGED <<returned, result>>
       ELSE /\ result' = clean_data(data, cleaning_rules)
            /\ returned' = TRUE
            /\ pc' = "done"
    /\ UNCHANGED <<config, pagination, page_num, has_next_page, data, attempt,
                   current_page, total_items, log, tries, delays, progress, main>>

\* A KeyboardInterrupt raised while the crawl loop runs or is being left:
\* nothing in scrape_website catches it, and the main program's handler
\* (lines 532-534) exits without a result.
Interrupt ==
    /\ pc \in {"while", "attempt", "stopping"}
    /\ pc' = "interrupted"
    /\ UNCHANGED <<config, pagination, page_num, has_next_page, data, attempt,
                   scraping, current_page, total_items, log, tries, returned, result,
                   cleans, delays, progress, main>>

Next ==
    \/ Start
    \/ LoopHead
    \/ AttemptFails
    \/ AttemptSucceeds
    \/ Finish
    \/ Interrupt

Spec == Init /\ [][Next]_vars

\* A caller that has got the result of a crawl calls scrape_website on the
\* same WebScraper again: the locals of the call and the observation of its
\* requests start afresh, the attributes of the instance (scraping,
\* current_page, total_items, lines 33-35) are what the crawl before left,
\* and the pagination dict is the caller's, as the crawl before left it.
Again ==
    /\ pc = "done"
    /\ pc' = "idle"
    /\ page_num' = 0
    /\ has_next_page' = FALSE
    /\ data' = <<>>
    /\ log' = <<>>
    /\ returned' = FALSE
    /\ result' = <<>>
    /\ given' = pagination
    /\ cleans' = 0
    /\ delays' = 0
    /\ UNCHANGED <<url, limit_pages, cleaning_rules, max_retries, pagination,
                   selectors, attempt, tries, scraping, current_page, total_items, progress, main>>

NextReuse == Next \/ Again

\* ---- a site without a last page
\* The site pages above are numbered up to MaxPages. A site that answers the
\* request for every page number with items (and a next link) is the same
\* site seen through a window: when a crawl without page limit has fetched
\* page MaxPages and goes on, the page just fetched is counted as the page
\* before it, and what the crawl holds of it is dropped. The loop of a crawl
\* without limit reads page_num only to build the request (lines 224-238), so
\* the crawl goes on from the recounted state as it does from the real one.
Recount ==
    /\ pc = "while"
    /\ limit_pages = NoLimit
    /\ has_next_page
    /\ page_num = MaxPages + 1
    /\ log # <<>> /\ log[Len(log)].ok
    /\ page_num' = page_num - 1
    /\ current_page' = current_page - 1
    /\ log' = SubSeq(log, 1, Len(log) - 1)
    /\ data' = SubSeq(data, 1, Len(data) - Len(log[Len(log)].soup.items))
    /\ total_items' = Len(data')
    /\ UNCHANGED <<config, pagination, pc, has_next_page, attempt, scraping, tries,
                   returned, result, cleans, delays, progress, main>>

\* The crawls without cleaning rules whose pagination has no params of the
\* caller.
InitEndless == Init /\ ~pagination.hasParams /\ cleaning_rules = NoRules

NextEndless ==
    \/ Start
    \/ LoopHead
    \/ AttemptFails
    \/ AttemptSucceeds
    \/ Finish
    \/ Recount

\* The crawl is one thread that is never interrupted and whose every request
\* is answered or times out (line 121, timeout=self.timeout): it always takes
\* its next step.
SpecEndless == InitEndless /\ [][NextEndless]_vars /\ WF_vars(NextEndless)

\* ---- the main program
\* Line 491: the scraper of the main program is constructed with max_retries=2.
MainMaxRetries == 2

\* The main program has its configuration and has constructed its scraper;
\* the site answers the request for robots.txt in one of the ways.
InitMain ==
    /\ robots \in RobotsResponses
    /\ url \in Urls
    /\ selectors = MainSelectors
    /\ pagination \in { p \in Paginations : p.next_selector = "" /\ ~p.hasParams }
    /\ limit_pages \in {NoLimit, MaxLimit}
    /\ cleaning_rules \in RuleSets
    /\ max_retries = MainMaxRetries
    /\ pc = "main"
    /\ page_num = 0
    /\ has_next_page = FALSE
    /\ data = <<>>
    /\ attempt = 0
    /\ scraping = FALSE
    /\ current_page = 0
    /\ total_items = 0
    /\ log = <<>>
    /\ tries = 0
    /\ returned = FALSE
    /\ result = <<>>
    /\ given = pagination
    /\ cleans = 0
    /\ delays = 0
    /\ reporter = "none"
    /\ shown = <<>>
    /\ exported = {}

\* Lines 495-497: the robots.txt check; scraping goes on only if it allows.
CheckRobots ==
    /\ pc = "main"
    /\ pc' = IF ~check_robots_txt(url, robots) THEN "refused" ELSE "idle"
    /\ UNCHANGED <<config, pagination, page_num, has_next_page, data, attempt,
                   scraping, current_page, total_items, log, tries, returned, result,
                   cleans, delays, progress, main>>

\* Lines 512-518 and 319-341: the result is exported as csv and as json;
\* export_data writes nothing for an empty result, and logs the failure of a
\* write without raising.
Export ==
    /\ pc = "done"
    /\ pc' = "exported"
    /\ \E written \in SUBSET {"csv", "json"} :
          exported' = IF result = <<>> THEN {} ELSE written
    /\ UNCHANGED <<config, pagination, page_num, has_next_page, data, attempt,
                   scraping, current_page, total_items, log, tries, returned, result,
                   cleans, delays, progress, robots>>

NextMain == CheckRobots \/ Next \/ Export

SpecMain == InitMain /\ [][NextMain]_vars

\* ---- crawls with other selector maps
\* The selector maps: titles and prices in both orders, no field at all, the
\* title with the link's href (as the main program's default has it), a dict
\* without attribute, the title attribute, the class attribute, and selectors
\* that match nothing in the site's containers.
SelectorSets ==
    { MainSelectors,
      << Selector("price", FALSE, "p.price_color", ""),
         Selector("title", FALSE, "h3 a", "") >>,
      << >>,
      << Selector("title", FALSE, "h3 a", ""),
         Selector("link", TRUE, "h3 a", "href") >>,
      << Selector("title", TRUE, "h3 a", "") >>,
      << Selector("name", TRUE, "h3 a", "title") >>,
      << Selector("kind", TRUE, "h3 a", "class") >>,
      << Selector("rating", FALSE, "p.star-rating", ""),
         Selector("stock", TRUE, "p.instock", "data-count") >> }

\* The crawls of a valid URL without cleaning rules and without next selector.
InitExtract ==
    /\ url = BaseUrl
    /\ selectors \in SelectorSets
    /\ pagination \in { p \in Paginations : p.next_selector = "" /\ ~p.hasParams }
    /\ limit_pages \in {NoLimit, MaxLimit}
    /\ cleaning_rules = NoRules
    /\ max_retries \in 1..MaxRetries
    /\ pc = "idle"
    /\ page_num = 0
    /\ has_next_page = FALSE
    /\ data = <<>>
    /\ attempt = 0
    /\ scraping = FALSE
    /\ current_page = 0
    /\ total_items = 0
    /\ log = <<>>
    /\ tries = 0
    /\ returned = FALSE
    /\ result = <<>>
    /\ given = pagination
    /\ cleans = 0
    /\ delays = 0
    /\ reporter = "none"
    /\ shown = <<>>
    /\ robots = NoResponse
    /\ exported = {}

SpecExtract == InitExtract /\ [][Next]_vars

\* ---- clean_data called on its own
\* The texts of the price fields clean_data is called with: not a number,
\* empty, the numerals inf and nan, amounts with spaces, currency sign and
\* thousands separator, and an integer.
CleanTexts ==
    { <<"N", "/", "A">>, <<>>, <<"i", "n", "f">>, <<"n", "a", "n">>,
      <<" ", "1", "2", ".", "5", "0", " ">>,
      <<"$", "1", ",", "2", "0", "4", ".", "5", "0">>, <<"7">> }
CleanValues == {NoneVal} \cup { StrVal(t) : t \in CleanTexts }

\* The records: a price alone, or a title before a price.
CleanRecords ==
    { <<Field("price", v)>> : v \in CleanValues }
    \cup { <<Field("title", StrVal(<<" ", "A", " ", " ", "B", " ">>)), Field("price", v)>> :
             v \in CleanValues }

\* The record lists of at most n records.
RECURSIVE CleanInputs(_)
CleanInputs(n) ==
    IF n = 0 THEN { <<>> }
    ELSE CleanInputs(n - 1)
         \cup { Append(d, r) : d \in { x \in CleanInputs(n - 1) : Len(x) = n - 1 },
                               r \in CleanRecords }

\* The rule sets: none, the empty dict, every combination of the four flags
\* for price, and a rule for a field no record has.
CleanRuleSets ==
    { NoRules, Rules(<<>>),
      Rules([k \in {"rating"} |-> Rule(TRUE, FALSE, FALSE, TRUE)]) }
    \cup { Rules([k \in {"price"} |-> Rule(ws, cur, fl, int)]) :
             ws \in BOOLEAN, cur \in BOOLEAN, fl \in BOOLEAN, int \in BOOLEAN }

\* A scraper has been constructed, and clean_data is about to be called with
\* data and cleaning_rules.
InitClean ==
    /\ data \in CleanInputs(MaxRecords)
    /\ cleaning_rules \in CleanRuleSets
    /\ pc = "clean"
    /\ url = BaseUrl
    /\ pagination = Pagination(TRUE, "", EmptyUrl, FALSE, Dict(0, 0))
    /\ limit_pages = NoLimit
    /\ max_retries = 1
    /\ selectors = MainSelectors
    /\ page_num = 0
    /\ has_next_page = FALSE
    /\ attempt = 0
    /\ scraping = FALSE
    /\ current_page = 0
    /\ total_items = 0
    /\ log = <<>>
    /\ tries = 0
    /\ returned = FALSE
    /\ result = <<>>
    /\ given = pagination
    /\ cleans = 0
    /\ delays = 0
    /\ reporter = "none"
    /\ shown = <<>>
    /\ robots = NoResponse
    /\ exported = {}

\* Lines 145-186: one call of clean_data, which returns the cleaned list (the
\* records of data are read, the cleaned ones are new dicts) or raises.
Clean ==
    /\ pc = "clean"
    /\ cleans' = cleans + 1
    /\ IF CleanRaises(data, cleaning_rules)
       THEN pc' = "raised" /\ UNCHANGED <<returned, result>>
       ELSE /\ result' = clean_data(data, cleaning_rules)
            /\ returned' = TRUE
            /\ pc' = "cleaned"
    /\ UNCHANGED <<config, pagination, page_num, has_next_page, data, attempt,
                   scraping, current_page, total_items, log, tries, delays, progress, main>>

SpecClean == InitClean /\ [][Clean]_vars

\* The progress thread stores the page number it has shown in total_items.
ItemsAfterShow_Shown == current_page

\* Lines 190-193: display_progress assigns no attribute; total_items is after
\* a line has been written what it was before.
ItemsAfterShow == total_items

\* Line 190: the progress thread tests self.scraping.
ProgressTest ==
    /\ reporter = "test"
    /\ reporter' = IF scraping THEN "write" ELSE "ended"
    /\ UNCHANGED <<crawl, shown, main>>

\* Lines 191-193: the progress thread reads the counters, writes the line
\* and sleeps before the next test.
ProgressWrite ==
    /\ reporter = "write"
    /\ shown' = <<current_page, total_items>>
    /\ reporter' = "test"
    /\ total_items' = ItemsAfterShow
    /\ UNCHANGED <<url, pagination, limit_pages, cleaning_rules, max_retries,
                   selectors, pc, page_num, has_next_page, data, attempt,
                   scraping, current_page, log, tries, returned, result,
                   given, cleans, delays, main>>

NextProgress == Next \/ ProgressTest \/ ProgressWrite

\* The crawls of a valid URL with cleaning rules, without a page limit or
\* with the largest one, and with a pagination that has no next selector.
InitProgress ==
    /\ Init
    /\ url = BaseUrl
    /\ cleaning_rules = MainRules
    /\ limit_pages \in {NoLimit, MaxLimit}
    /\ pagination.next_selector = ""

\* The crawl with its progress thread, scheduled in any way.
SpecProgress == InitProgress /\ [][NextProgress]_vars

\* Crawls one after the other on one instance.
SpecReuse == Init /\ [][NextReuse]_vars

\* ---------------------------------------------------------------- properties
\* The latest call of get_page_content.
Last == log[Len(log)]

\* The number of item containers of the first n pages requested.
RECURSIVE ItemsUpTo(_)
ItemsUpTo(n) == IF n = 0 THEN 0 ELSE ItemsUpTo(n - 1) + Len(log[n].soup.items)

\* record[key]
Get(record, key) ==
    record[CHOOSE i \in DOMAIN record : record[i].key = key].value

\* The title of item j of page i as a record holds it.
TitleOf(i, j) == StrVal(<<"B", CharOf(i), "-", CharOf(j)>>)

\* The result holds, in page order, one record for every item of the first n
\* pages requested.
ResultHolds(n) ==
    /\ returned
    /\ Len(result) = ItemsUpTo(n)
    /\ \A i \in 1..n : \A j \in 1..Len(log[i].soup.items) :
          Get(result[ItemsUpTo(i - 1) + j], "title") = TitleOf(i, j)

NextLinkPagination == ~pagination.isNone /\ pagination.next_selector # ""
UrlPatternPagination ==
    ~pagination.isNone /\ pagination.next_selector = "" /\ pagination.url_pattern # EmptyUrl
LimitAllows(n) == limit_pages = NoLimit \/ n < limit_pages

\* C1: a call of get_page_content never makes more than max_retries HTTP
\* attempts; a call in which every attempt failed has made exactly max_retries
\* attempts when it returns failure; and an attempt is made only inside a call
\* that has not succeeded yet.
C1_RetryBound ==
    /\ [](/\ tries <= max_retries
          /\ (log # <<>> /\ pc \in {"stopping", "done", "raised"} /\ ~Last.ok
                /\ is_valid_url(Last.url)) => tries = max_retries)
    /\ [][tries' > tries =>
            /\ pc = "attempt" /\ ~Last.ok /\ tries < max_retries
            /\ tries' = tries + 1]_vars

\* C1 witness: every attempt of a call failed, more than one was made, and the
\* call has returned failure.
C1_Witness ==
    /\ pc = "stopping" /\ log # <<>> /\ ~Last.ok
    /\ max_retries = MaxRetries /\ tries = max_retries /\ tries > 1

\* C2: a failed fetch is the last one of the crawl, and when the fetch of page
\* k has failed the crawl returns one record for every item of pages 1..k-1
\* (none when k = 1).
C2_PartialOnFailure ==
    /\ \A n \in 1..(Len(log) - 1) : log[n].ok
    /\ (pc = "done" /\ log # <<>> /\ ~Last.ok) => ResultHolds(Len(log) - 1)

\* C2 witness: the fetch of a page after the first failed and the crawl
\* returned the records of the pages before it.
C2_Witness ==
    /\ pc = "done" /\ Len(log) = 3 /\ ~Last.ok
    /\ Len(result) = 2 * MaxItems

\* C3: when an interrupt has stopped the crawl loop, the records accumulated
\* up to that point (here: at least one) have been returned as the crawl's
\* result.
C3_InterruptReturnsPartial ==
    (pc = "interrupted" /\ data # <<>>) => (returned /\ Len(result) = Len(data))

\* C4: with limit_pages set, no page numbered above it is requested, and once
\* the page with the limit's number has been fetched no further page is.
C4_LimitBound ==
    limit_pages # NoLimit =>
        /\ current_page <= limit_pages
        /\ \A n \in DOMAIN log : log[n].page <= limit_pages /\ log[n].page = n

\* C4 witness: the crawl has ended at the limit although the last page had
\* items and a next link.
C4_Witness ==
    /\ pc = "done" /\ limit_pages = 1 /\ Len(log) = 1 /\ NextLinkPagination
    /\ Last.ok /\ Len(Last.soup.items) > 0 /\ Last.soup.next.found

\* C5: under next-link pagination, page n+1 is requested only if page n was
\* fetched with at least one item, an element matching next_selector and the
\* limit unset or above n; and a crawl that has ended has requested page n+1
\* for every page n of which all that is true.
C5_NextLinkDecision ==
    NextLinkPagination =>
        /\ \A n \in 1..(Len(log) - 1) :
              /\ log[n].ok /\ Len(log[n].soup.items) > 0
              /\ log[n].soup.next.found
              /\ LimitAllows(n)
        /\ pc = "done" =>
              \A n \in DOMAIN log :
                  (/\ log[n].ok /\ Len(log[n].soup.items) > 0
                   /\ log[n].soup.next.found
                   /\ LimitAllows(n)) => n < Len(log)

\* C5 witness: a next-link crawl went from page 1 to page 2 and ended there
\* because page 2, which has items, has no element matching next_selector.
C5_Witness ==
    /\ pc = "done" /\ NextLinkPagination /\ limit_pages = NoLimit /\ Len(log) = 2
    /\ log[1].soup.next.found
    /\ Last.ok /\ Len(Last.soup.items) > 0 /\ ~Last.soup.next.found

\* C6: under URL-pattern pagination, page n+1 is requested only if page n was
\* fetched with at least one item and the limit is unset or above n; a crawl
\* that has ended has requested page n+1 for every such page n; and the
\* request for page n+1 carries no params and targets the template with n+1
\* in place of the placeholder, resolved against the crawl URL (a relative
\* template replaces the last segment of the crawl URL's path, a template of
\* another scheme is taken as it is).
C6_UrlPatternDecision ==
    UrlPatternPagination =>
        /\ \A n \in 1..(Len(log) - 1) :
              /\ log[n].ok /\ Len(log[n].soup.items) > 0 /\ LimitAllows(n)
              /\ log[n + 1].params.isNone
              /\ log[n + 1].url =
                    IF pagination.url_pattern.scheme = ""
                    THEN MkUrl(url.scheme, url.netloc, TRUE,
                               <<Seg("catalogue", 0), Seg("page-", n + 1)>>)
                    ELSE MkUrl(pagination.url_pattern.scheme,
                               pagination.url_pattern.netloc, TRUE,
                               <<Seg("page-", n + 1)>>)
        /\ pc = "done" =>
              \A n \in DOMAIN log :
                  (log[n].ok /\ Len(log[n].soup.items) > 0 /\ LimitAllows(n))
                      => n < Len(log)

\* C6 witness: a URL-pattern crawl has fetched pages 1 and 2 from the
\* formatted template and ended at its limit of two pages.
C6_Witness ==
    /\ pc = "done" /\ UrlPatternPagination /\ limit_pages = 2 /\ Len(log) = 2
    /\ Last.ok /\ Len(Last.soup.items) > 0

\* C7: under next-link pagination, the request for a page after the first
\* targets the resolved href of the next-link element of the page before when
\* that element has an href, and the crawl URL only when it has none.
C7_FollowsHref ==
    NextLinkPagination =>
        \A n \in 2..Len(log) :
            IF log[n - 1].soup.next.href # EmptyUrl
            THEN log[n].url = make_absolute_url(url, log[n - 1].soup.next.href)
            ELSE log[n].url = url

\* C8 as stated: a crawl with a valid URL that has left its loop has requested
\* page 1, whatever limit_pages is.
C8_FirstPageAlways ==
    (is_valid_url(url) /\ pc \in {"stopping", "done", "raised"}) =>
        (Len(log) >= 1 /\ log[1].page = 1)

\* C8 amended: a crawl with a valid URL and limit_pages unset or at least 1
\* that has left its loop has requested page 1 at the crawl URL, with at least
\* one HTTP attempt, and no continue/stop decision was taken before.
C8_FirstPageUnlessZeroLimit ==
    /\ (is_valid_url(url) /\ (limit_pages = NoLimit \/ limit_pages >= 1)
          /\ pc \in {"stopping", "done", "raised"}) =>
            /\ Len(log) >= 1 /\ log[1].page = 1 /\ log[1].url = url
            /\ log[1].params.isNone
            /\ Len(log) = 1 => tries >= 1
    /\ (pc = "while" /\ log = <<>>) => has_next_page

\* C8 witness: a crawl limited to one page has ended after requesting page 1.
C8_Witness ==
    /\ pc = "done" /\ is_valid_url(url) /\ limit_pages = 1
    /\ Len(log) = 1 /\ log[1].page = 1 /\ Last.ok

\* C9: a fetched page without item containers is the last page requested, and
\* the crawl then returns the records of the pages before it.
C9_EmptyPageEnds ==
    /\ \A n \in DOMAIN log : (log[n].ok /\ log[n].soup.items = <<>>) => n = Len(log)
    /\ (pc = "done" /\ log # <<>> /\ Last.ok /\ Last.soup.items = <<>>)
          => ResultHolds(Len(log) - 1)

\* C9 witness: page 2 of an unlimited next-link crawl has a next link but no
\* items, and the crawl has ended returning the records of page 1.
C9_Witness ==
    /\ pc = "done" /\ NextLinkPagination /\ limit_pages = NoLimit /\ Len(log) = 2
    /\ Last.ok /\ Last.soup.items = <<>> /\ Last.soup.next.found
    /\ Len(result) = MaxItems

\* C10: without cleaning rules, the result of a crawl is the records of the
\* pages fetched, in page order and within a page in item order, each as
\* extracted: as many records as the pages had items.
C10_ConcatenationInOrder ==
    (pc = "done" /\ is_valid_url(url) /\ cleaning_rules = NoRules) =>
        /\ ResultHolds(Len(log))
        /\ result = data
        /\ \A i \in DOMAIN result : \A j \in DOMAIN result :
              (i < j) =>
                  \/ DigitOf(Get(result[i], "title").s[2]) < DigitOf(Get(result[j], "title").s[2])
                  \/ /\ Get(result[i], "title").s[2] = Get(result[j], "title").s[2]
                     /\ DigitOf(Get(result[i], "title").s[4]) < DigitOf(Get(result[j], "title").s[4])

\* C10 witness: two pages of MaxItems items, a next link on page 1 only, no
\* limit and no rules give 2 * MaxItems records from two pages.
C10_Witness ==
    /\ pc = "done" /\ NextLinkPagination /\ limit_pages = NoLimit
    /\ cleaning_rules = NoRules /\ Len(log) = 2
    /\ log[1].soup.next.found /\ ~log[2].soup.next.found
    /\ Len(log[1].soup.items) = MaxItems /\ Len(log[2].soup.items) = MaxItems
    /\ Len(result) = 2 * MaxItems /\ page_num - 1 = 2

\* The crawl was given cleaning rules (line 305).
RulesSupplied == ~(cleaning_rules.isNone \/ DOMAIN cleaning_rules.d = {})

\* C11: clean_data is not called while the crawl loop runs; a crawl that has
\* left its loop and returned has called it exactly once when rules were
\* supplied and never when they were not, and what it returns is then the
\* cleaning of the whole accumulated data.
C11_CleanedOnce ==
    /\ pc \in {"idle", "while", "attempt", "stopping"} => cleans = 0
    /\ (pc = "done" /\ is_valid_url(url)) =>
          /\ cleans = (IF RulesSupplied THEN 1 ELSE 0)
          /\ Len(data) = ItemsUpTo(Len(log))
          /\ result = clean_data(data, cleaning_rules)

\* C11 witness: a crawl with rules has ended after a failed fetch of page 2
\* and has cleaned the records of page 1 once.
C11_Witness ==
    /\ pc = "done" /\ RulesSupplied /\ cleans = 1
    /\ Len(log) = 2 /\ ~Last.ok /\ Len(result) = MaxItems
    /\ result # data

\* C12: an HTTP attempt is made only inside get_page_content, and every
\* attempt but the first of the crawl comes after at least one delay taken
\* since the attempt before it; a successful fetch has taken exactly one delay
\* when it returns.
C12_Throttled ==
    /\ [](log # <<>> /\ Last.ok /\ pc \in {"while", "stopping"} => delays = 1)
    /\ [][tries' > tries =>
            /\ pc = "attempt"
            /\ (Len(log) = 1 /\ tries = 0) \/ delays >= 1]_vars

\* C12 witness: page 2 was fetched at the second attempt, after the delay
\* that followed page 1 and the delay that followed the failed attempt.
C12_Witness ==
    /\ Len(log) = 2 /\ Last.ok /\ tries = 2 /\ delays = 1

\* C16: when a crawl has returned, the pagination object is what the caller
\* passed (the selector map and the cleaning rules are never assigned).
C16_ConfigReadOnly ==
    pc = "done" => pagination = given

\* A URL that is empty, has no host, or has a scheme other than http and https.
Rejected(u) == u.netloc = "" \/ u.scheme \notin {"http", "https"}

\* C13: a call of get_page_content with such a URL fails at once, with no HTTP
\* attempt and no delay; a crawl whose start URL is such a URL never sets
\* scraping, requests nothing, and returns the empty list.
C13_InvalidUrlRejected ==
    /\ [](\A n \in DOMAIN log :
            Rejected(log[n].url) =>
                /\ ~log[n].ok
                /\ n = Len(log) /\ tries = 0 /\ pc \notin {"while", "attempt"})
    /\ [][(Len(log') > Len(log) /\ Rejected(log'[Len(log')].url)) =>
            delays' = delays /\ pc' = "stopping"]_vars
    /\ [](Rejected(url) =>
            /\ ~scraping /\ log = <<>> /\ tries = 0 /\ delays = 0
            /\ pc \in {"idle", "done"}
            /\ pc = "done" => (returned /\ result = <<>>))

\* C13 witness: page 1 was fetched, and get_page_content has refused the URL
\* of page 2, an ftp URL, without an attempt.
C13_Witness ==
    /\ Len(log) = 2 /\ log[1].ok /\ Rejected(Last.url) /\ tries = 0
    /\ pc = "stopping" /\ delays = 1

\* A crawl with an invalid start URL has returned.
C13_WitnessStart ==
    pc = "done" /\ Rejected(url) /\ url # EmptyUrl /\ returned /\ log = <<>>

\* C14: while a crawl is active (scraping is true before and after a step)
\* neither current_page nor total_items decreases, in the first crawl of an
\* instance and in every later one.
C14_CountersMonotone ==
    [][(scraping /\ scraping') =>
          (current_page' >= current_page /\ total_items' >= total_items)]_vars

\* C15: every step of a crawl running with its progress thread that changes
\* anything of the crawl (the flag, the counters, the requests made, the data
\* gathered, the result) is a step of the crawl loop itself, so the requests
\* and the result are those of the crawl run without the thread; a step of
\* the thread leaves all of it as it was.
C15_ReporterReadsOnly ==
    /\ [][Next]_crawl
    /\ [][reporter # "none" /\ (reporter' # reporter \/ shown' # shown)
            => UNCHANGED crawl]_vars

\* C15 witness: the thread wrote a line between the two pages of a crawl and
\* ended when the crawl had returned both pages' records.
C15_Witness ==
    /\ pc = "done" /\ reporter = "ended" /\ shown = <<2, MaxItems>>
    /\ Len(log) = 2 /\ Len(result) = 2 * MaxItems

\* The texts that are not a finite number.
NotNumbers == { <<"N", "/", "A">>, <<>>, <<"i", "n", "f">>, <<"n", "a", "n">> }

\* C17: clean_data never raises, and where the rule of a field asks for a
\* conversion to float or int only, a value that is not a finite number (or
\* that is null already) is null in the output.
C17_CleanTotal ==
    /\ pc # "raised"
    /\ pc = "cleaned" =>
          \A i \in DOMAIN data : \A j \in DOMAIN data[i] :
              LET key == data[i][j].key
                  rule == cleaning_rules.d[key]
              IN  ( /\ ~cleaning_rules.isNone
                    /\ key \in DOMAIN cleaning_rules.d
                    /\ ~rule.remove_whitespace /\ ~rule.remove_currency
                    /\ rule.convert_to_float \/ rule.convert_to_int
                    /\ \/ data[i][j].value = NoneVal
                       \/ data[i][j].value.s \in NotNumbers )
                  => result[i][j].value = NoneVal

\* C18: the list clean_data returns has as many records as its input, each
\* with the keys of its input record in the same order; a field without a
\* rule has the value it had; and the call leaves the input as it was.
C18_CleanFrame ==
    /\ [](pc = "cleaned" =>
            /\ Len(result) = Len(data)
            /\ \A i \in DOMAIN data :
                  /\ Len(result[i]) = Len(data[i])
                  /\ \A j \in DOMAIN data[i] :
                        /\ result[i][j].key = data[i][j].key
                        /\ (cleaning_rules.isNone \/ data[i][j].key \notin DOMAIN cleaning_rules.d)
                              => result[i][j].value = data[i][j].value)
    /\ [][pc = "clean" => data' = data]_vars

\* C18 witness: of two records with a title and a price, cleaned under a
\* rule for price, the price of the first has changed and its title has not.
C18_Witness ==
    /\ pc = "cleaned" /\ Len(data) = MaxRecords /\ Len(data[1]) = 2
    /\ "price" \in DOMAIN cleaning_rules.d
    /\ result[1][2].value # data[1][2].value
    /\ result[1][1] = data[1][1]

\* A rule for a field that no record has leaves every record as it was.
C18_WitnessUnknownField ==
    /\ pc = "cleaned" /\ Len(data) = MaxRecords
    /\ "rating" \in DOMAIN cleaning_rules.d /\ result = data

\* C19: extraction never raises; the pages fetched so far have given one
\* record per item container, each with one field per entry of the selector
\* map, in the map's order; and the field of a selector that matches nothing
\* in the container, or of an attribute its element does not have, is null.
C19_ExtractShape ==
    /\ pc # "raised"
    /\ Len(data) = ItemsUpTo(Len(log))
    /\ \A n \in DOMAIN log : \A k \in DOMAIN log[n].soup.items :
          LET record == data[ItemsUpTo(n - 1) + k]
              item == log[n].soup.items[k]
          IN  /\ Len(record) = Len(selectors)
              /\ \A f \in DOMAIN selectors :
                    LET element == SelectOne(item, selectors[f].selector) IN
                    /\ record[f].key = selectors[f].key
                    /\ ~element.found => record[f].value = NoneVal
                    /\ ( /\ element.found /\ selectors[f].isDict
                         /\ selectors[f].attribute \in AttrNames
                         /\ element.attrs[selectors[f].attribute] = AbsentAttr )
                          => record[f].value = NoneVal

\* The lines of a text.
RECURSIVE Lines(_)
Lines(text) ==
    IF "\n" \notin {text[i] : i \in DOMAIN text} THEN { text }
    ELSE LET i == CHOOSE i \in DOMAIN text :
                    text[i] = "\n" /\ \A j \in 1..(i - 1) : text[j] # "\n"
         IN  { SubSeq(text, 1, i - 1) } \cup Lines(SubSeq(text, i + 1, Len(text)))

\* C20: the main program refuses to scrape only if robots.txt came with
\* status 200 and has the line for every agent and the line that disallows
\* everything; it goes on when the request failed or the status is not 200;
\* and when it has refused, no page was requested and nothing exported.
C20_RobotsGate ==
    /\ pc = "refused" =>
          /\ ~robots.raised /\ robots.status_code = 200
          /\ <<"U", "s", "e", "r", "-", "a", "g", "e", "n", "t", ":", " ", "*">> \in Lines(robots.text)
          /\ <<"D", "i", "s", "a", "l", "l", "o", "w", ":", " ", "/">> \in Lines(robots.text)
    /\ (robots.raised \/ robots.status_code # 200) => pc # "refused"
    /\ pc = "refused" => (log = <<>> /\ exported = {} /\ ~scraping /\ ~returned)

\* C21 as claimed: every crawl, with or without a page limit, returns.
C21_AlwaysReturns == <>(pc = "done")

\* C21: a crawl with a page limit calls get_page_content at most limit_pages
\* times, each call making at most max_retries HTTP attempts, and a crawl
\* with a page limit or without pagination ends: it returns, or raises what
\* its extraction or clean_data raises.
C21_ReturnsWithinLimit ==
    /\ [](tries <= max_retries)
    /\ [](limit_pages # NoLimit => Len(log) <= limit_pages)
    /\ (limit_pages # NoLimit \/ pagination.isNone) ~> (pc \in {"done", "raised"})

\* C21 witness: a crawl with the largest limit has returned after as many
\* pages, the last one fetched at the last attempt allowed.
C21_Witness ==
    /\ pc = "done" /\ limit_pages = MaxLimit /\ Len(log) = MaxLimit
    /\ max_retries = MaxRetries /\ tries = MaxRetries /\ Last.ok
    /\ Len(Last.soup.items) > 0

\* C22: when scrape_website is over after it started its progress thread,
\* whether it returned, raised or was interrupted, scraping is false.
C22_FlagReset ==
    (pc \in {"done", "raised", "interrupted"} /\ reporter # "none") => ~scraping
====
